---- MODULE Spec2Model ----
(***************************************************************************)
(* A model of the book-library tooling of hugo-carinthia:                  *)
(*   - SimpleOverflowFixer (services/simple_overflow_fixer.py),            *)
(*   - CoverLookupService.download_cover (services/cover_lookup.py),       *)
(*   - ContentLookupService.lookup (services/content_lookup.py).           *)
(*                                                                         *)
(* Numbers.  Python floats are modelled as exact fixed-point numbers, in   *)
(* units of 1/100000 (Unit), wide enough that every product with 0.7 and    *)
(* 0.9 the model takes is exact.                                           *)
(*                                                                         *)
(* Markup.  An SVG document is the sequence of its <text ...>...</text>    *)
(* elements in document order (what _find_text_elements returns); the      *)
(* markup between them is never read or written.  An element is the record *)
(* of the attributes the fixer reads (x, font-size, style, textLength,     *)
(* text-anchor) and the length of its stripped content.  Each attribute    *)
(* keeps the distinctions the regular expressions make (absent, no number  *)
(* in it, a digit run float() rejects, a number) and, for a font size, the *)
(* spelling ("in": as the author wrote it, "px": as the fixer writes it),  *)
(* so that two elements are equal records exactly when they are equal      *)
(* strings among the documents enumerated here.                            *)
(***************************************************************************)
EXTENDS Integers, Sequences, FiniteSets, TLC

(* ---------------------------------------------------------------- bounds *)

\* Longest document (number of <text> elements) built from CoreElems.
MaxElems == 2

(* ------------------------------------------------------------- constants *)

Unit == 100 * 1000
avg_char_width == 7                    \* in tenths: 0.7
default_font_size == 16
cover_width == 236
banner_width == 1024
safe_margin == 10
min_font_size == 10
font_reduction == 9                    \* in tenths: 0.9

Kinds == {"cover", "banner", "thumbnail"}

(* ----------------------------------------------------- results and errors *)

\* Eval({body : x \in {e}}) is LET x == e IN body, with e evaluated once.
Eval(S) == CHOOSE v \in S : TRUE

\* A Python call either returns a value or raises (here always ValueError,
\* from float() on a digit run such as "1.2.3").
Ok(v) == [ok |-> TRUE, v |-> v]
ValueError == [ok |-> FALSE]

(* --------------------------------------------------------------- elements *)

NoX == [k |-> "none", v |-> 0]
BadX == [k |-> "bad", v |-> 0]
NumX(v) == [k |-> "num", v |-> v]
\* No x attribute, but dx="v": the first text the pattern x="([^"]*)" finds
\* in the element is the tail of the dx attribute.
DxOnly(v) == [k |-> "dx", v |-> v]

\* re.search(r'x="([^"]*)"', text_element) matches and float() takes the
\* match; e.x.v is then x_pos.
x_parses(e) == e.x.k \in {"num", "dx"}

NoFs == [k |-> "none", v |-> 0, sp |-> "in"]
NoNumFs == [k |-> "nonum", v |-> 0, sp |-> "in"]       \* font-size="large"
BadFs == [k |-> "bad", v |-> 0, sp |-> "in"]           \* font-size="1.2.3"
NumFs(v, sp) == [k |-> "num", v |-> v, sp |-> sp]

NoStyle == [k |-> "none", f |-> NoFs, anc |-> "none"]
Style(f, anc) == [k |-> "some", f |-> f, anc |-> anc]

NoTl == [k |-> "none", v |-> 0]
BadTl == [k |-> "bad", v |-> 0]
NumTl(v) == [k |-> "num", v |-> v]

Text(x, fs, st, tl, anc, len) ==
    [x |-> x, fs |-> fs, st |-> st, tl |-> tl, anc |-> anc, len |-> len]

(* ------------------------------------------------------ SimpleOverflowFixer *)

\* Mutant: every kind gets the cover's canvas.
canvas_size_cover_only(svg_type) ==
    <<cover_width * Unit, safe_margin * Unit>>

\* canvas_size(svg_type) = <<width, safe_margin>>, in Units.
canvas_size(svg_type) ==
    IF svg_type = "banner"
    THEN <<banner_width * Unit, safe_margin * Unit>>
    ELSE <<cover_width * Unit, safe_margin * Unit>>

extract_font_size(e) ==
    IF e.fs.k = "num" THEN Ok(e.fs.v)
    ELSE IF e.fs.k = "bad" THEN ValueError
    ELSE IF e.st.k = "some" /\ e.st.f.k = "num" THEN Ok(e.st.f.v)
    ELSE IF e.st.k = "some" /\ e.st.f.k = "bad" THEN ValueError
    ELSE Ok(default_font_size * Unit)

\* Mutant: textLength is ignored, the width is always the estimate.
get_text_width_estimate_only(e) ==
    LET font_size == extract_font_size(e) IN
    IF ~font_size.ok THEN ValueError
    ELSE Ok((e.len * font_size.v * avg_char_width) \div 10)

get_text_width(e) ==
    IF e.tl.k = "num" THEN Ok(e.tl.v)
    ELSE LET font_size == extract_font_size(e) IN
         IF ~font_size.ok THEN ValueError
         ELSE Ok((e.len * font_size.v * avg_char_width) \div 10)

extract_text_anchor(e) ==
    IF e.anc # "none" THEN e.anc
    ELSE IF e.st.k = "some" /\ e.st.anc # "none" THEN e.st.anc
    ELSE "start"

\* Mutant: every element is taken as centred on x.
calculate_text_bounds_centred(x_pos, text_width, text_anchor) ==
    <<x_pos - text_width \div 2, x_pos + text_width \div 2>>

\* <<left_edge, right_edge>>
calculate_text_bounds(x_pos, text_width, text_anchor) ==
    IF text_anchor = "middle"
    THEN <<x_pos - text_width \div 2, x_pos + text_width \div 2>>
    ELSE IF text_anchor = "end"
    THEN <<x_pos - text_width, x_pos>>
    ELSE <<x_pos, x_pos + text_width>>

\* Mutant: an edge exactly on a safe boundary counts as an overflow.
appears_to_overflow_inclusive(e, canvas_width, margin) ==
    IF ~x_parses(e) THEN Ok(FALSE)
    ELSE LET text_width == get_text_width(e) IN
         IF ~text_width.ok THEN ValueError
         ELSE LET b == calculate_text_bounds(e.x.v, text_width.v,
                                             extract_text_anchor(e))
              IN  Ok(b[1] <= margin \/ b[2] >= canvas_width - margin)

appears_to_overflow(e, canvas_width, margin) ==
    IF ~x_parses(e) THEN Ok(FALSE)
    ELSE LET text_width == get_text_width(e) IN
         IF ~text_width.ok THEN ValueError
         ELSE LET b == calculate_text_bounds(e.x.v, text_width.v,
                                             extract_text_anchor(e))
                  safe_left == margin
                  safe_right == canvas_width - margin
              IN  Ok(b[1] < safe_left \/ b[2] > safe_right)

Abs(n) == IF n < 0 THEN -n ELSE n

\* f'{new_x:.1f}': the nearest tenth.
Format1f(v) == ((v + Unit \div 20) \div (Unit \div 10)) * (Unit \div 10)

\* Mutant: any change of x is written, however small.
try_reposition_any_shift(e, canvas_width, margin) ==
    IF ~x_parses(e) THEN Ok(e)
    ELSE LET text_width == get_text_width(e) IN
         IF ~text_width.ok THEN ValueError
         ELSE LET x_pos == e.x.v
                  w == text_width.v
                  text_anchor == extract_text_anchor(e)
                  b == calculate_text_bounds(x_pos, w, text_anchor)
                  safe_left == margin
                  safe_right == canvas_width - margin
                  new_x ==
                      IF b[1] < safe_left
                      THEN IF text_anchor = "middle" THEN safe_left + w \div 2
                           ELSE IF text_anchor = "end" THEN safe_left + w
                           ELSE safe_left
                      ELSE IF b[2] > safe_right
                      THEN IF text_anchor = "middle" THEN safe_right - w \div 2
                           ELSE IF text_anchor = "end" THEN safe_right
                           ELSE safe_right - w
                      ELSE x_pos
              IN  IF new_x # x_pos
                  THEN Ok([e EXCEPT !.x.v = Format1f(new_x)])
                  ELSE Ok(e)

\* Mutant: the right overflow is looked at first.
try_reposition_right_first(e, canvas_width, margin) ==
    IF ~x_parses(e) THEN Ok(e)
    ELSE LET text_width == get_text_width(e) IN
         IF ~text_width.ok THEN ValueError
         ELSE LET x_pos == e.x.v
                  w == text_width.v
                  text_anchor == extract_text_anchor(e)
                  b == calculate_text_bounds(x_pos, w, text_anchor)
                  safe_left == margin
                  safe_right == canvas_width - margin
                  new_x ==
                      IF b[2] > safe_right
                      THEN IF text_anchor = "middle" THEN safe_right - w \div 2
                           ELSE IF text_anchor = "end" THEN safe_right
                           ELSE safe_right - w
                      ELSE IF b[1] < safe_left
                      THEN IF text_anchor = "middle" THEN safe_left + w \div 2
                           ELSE IF text_anchor = "end" THEN safe_left + w
                           ELSE safe_left
                      ELSE x_pos
              IN  IF Abs(new_x - x_pos) > Unit \div 10
                  THEN Ok([e EXCEPT !.x.v = Format1f(new_x)])
                  ELSE Ok(e)

try_reposition(e, canvas_width, margin) ==
    IF ~x_parses(e) THEN Ok(e)
    ELSE LET text_width == get_text_width(e) IN
         IF ~text_width.ok THEN ValueError
         ELSE LET x_pos == e.x.v
                  w == text_width.v
                  text_anchor == extract_text_anchor(e)
                  b == calculate_text_bounds(x_pos, w, text_anchor)
                  safe_left == margin
                  safe_right == canvas_width - margin
                  new_x ==
                      IF b[1] < safe_left
                      THEN IF text_anchor = "middle" THEN safe_left + w \div 2
                           ELSE IF text_anchor = "end" THEN safe_left + w
                           ELSE safe_left
                      ELSE IF b[2] > safe_right
                      THEN IF text_anchor = "middle" THEN safe_right - w \div 2
                           ELSE IF text_anchor = "end" THEN safe_right
                           ELSE safe_right - w
                      ELSE x_pos
              IN  IF Abs(new_x - x_pos) > Unit \div 10
                  THEN Ok([e EXCEPT !.x.v = Format1f(new_x)])
                  ELSE Ok(e)

Max(a, b) == IF a >= b THEN a ELSE b

\* Mutant: the reduced size always goes to the font-size attribute.
try_font_reduction_attribute_only(e) ==
    LET current_size == extract_font_size(e) IN
    IF ~current_size.ok THEN ValueError
    ELSE Ok([e EXCEPT !.fs =
                 NumFs(Max((current_size.v * font_reduction) \div 10,
                           min_font_size * Unit), "px")])

try_font_reduction(e) ==
    LET current_size == extract_font_size(e) IN
    IF ~current_size.ok THEN ValueError
    ELSE LET new_size == Max((current_size.v * font_reduction) \div 10,
                             min_font_size * Unit)
             written == NumFs(new_size, "px")
         IN  IF e.fs.k # "none"
             THEN Ok([e EXCEPT !.fs = written])
             ELSE IF e.st.k = "some"
             THEN IF e.st.f.k = "nonum"
                  \* 'font-size:' is in the style, but re.sub finds no number
                  THEN Ok(e)
                  ELSE Ok([e EXCEPT !.st.f = written])
             ELSE Ok([e EXCEPT !.fs = written])

appears_to_overflow_after_fix(e, canvas_width, margin) ==
    appears_to_overflow(e, canvas_width, margin)

\* Mutant: phase 2 runs whether or not the moved element still overflows.
apply_minimal_fix_always_shrinks(e, canvas_width, margin) ==
    Eval({IF ~fixed_element.ok THEN ValueError
          ELSE try_font_reduction(fixed_element.v) :
              fixed_element \in {try_reposition(e, canvas_width, margin)}})

apply_minimal_fix(e, canvas_width, margin) ==
    Eval({IF ~fixed_element.ok THEN ValueError
          ELSE Eval({IF ~still.ok THEN ValueError
                     ELSE IF still.v THEN try_font_reduction(fixed_element.v)
                     ELSE fixed_element :
                         still \in {appears_to_overflow_after_fix(
                                        fixed_element.v, canvas_width, margin)}}) :
              fixed_element \in {try_reposition(e, canvas_width, margin)}})

\* str.replace(old, new) on a document: every occurrence of old's text.
str_replace(svg, old, new) ==
    [i \in DOMAIN svg |-> IF svg[i] = old THEN new ELSE svg[i]]

\* The error an exception inside the loop leaves fix_overflow with, and the
\* value its local corrected_svg has at that moment.
Failed(corrected_svg) == [ok |-> FALSE, v |-> corrected_svg]

\* The body of the try block: the loop over the matches of the ORIGINAL
\* svg_content, from match i on, with corrected_svg as accumulated so far.
RECURSIVE fix_loop(_, _, _, _, _)
fix_loop(text_elements, i, corrected_svg, width, margin) ==
    IF i > Len(text_elements) THEN Ok(corrected_svg)
    ELSE Eval({
        IF ~flagged.ok THEN Failed(corrected_svg)
        ELSE IF ~flagged.v
        THEN fix_loop(text_elements, i + 1, corrected_svg, width, margin)
        ELSE Eval({
            IF ~fixed_element.ok THEN Failed(corrected_svg)
            ELSE IF fixed_element.v # text_elements[i]
            THEN Eval({fix_loop(text_elements, i + 1, replaced, width, margin) :
                          replaced \in {str_replace(corrected_svg,
                                                    text_elements[i],
                                                    fixed_element.v)}})
            ELSE fix_loop(text_elements, i + 1, corrected_svg, width, margin) :
                fixed_element \in {apply_minimal_fix(text_elements[i],
                                                     width, margin)}}) :
            flagged \in {appears_to_overflow(text_elements[i], width, margin)}})

\* The try block of fix_overflow: what it returns, or the error it raises.
try_block(svg_content, svg_type) ==
    LET c == canvas_size(svg_type)
    IN  fix_loop(svg_content, 1, svg_content, c[1], c[2])

\* Mutant: the except clause returns corrected_svg, the partial result.
fix_overflow_keeps_partial(svg_content, svg_type) ==
    LET r == try_block(svg_content, svg_type)
    IN  IF r.ok THEN r ELSE Ok(r.v)

\* fix_overflow as its caller sees it: "except Exception" returns svg_content.
fix_overflow(svg_content, svg_type) ==
    LET r == try_block(svg_content, svg_type)
    IN  IF r.ok THEN r ELSE Ok(svg_content)

(* ------------------------------------------------- the documents enumerated *)

U(n) == n * Unit
Hundredths(n) == n * (Unit \div 100)

XValues == {U(5), Hundredths(990), Hundredths(995), U(10), U(200), U(226),
            U(900)}
XAttrs == {NoX, BadX, DxOnly(U(5))} \cup {NumX(v) : v \in XValues}
FsAttrs == {NoFs, NoNumFs, BadFs, NumFs(U(8), "in"), NumFs(U(16), "in"),
            NumFs(U(20), "in"), NumFs(U(40), "in"), NumFs(U(18), "px")}
Styles == {NoStyle, Style(NoFs, "middle"), Style(NumFs(U(16), "in"), "none"),
           Style(NoNumFs, "none"), Style(BadFs, "none")}
TextLengths == {NoTl, BadTl, NumTl(Hundredths(10003))}
Anchors == {"none", "start", "middle", "end", "justify"}
Lengths == {11, 12, 20, 40}

\* Every element a one-element document is drawn from.
Elems == {Text(x, fs, st, tl, anc, len) :
              x \in XAttrs, fs \in FsAttrs, st \in Styles,
              tl \in TextLengths, anc \in Anchors, len \in Lengths}

\* <text x="5" font-size="16">Hello World</text>: repositioning suffices.
HelloWorld == Text(NumX(U(5)), NumFs(U(16), "in"), NoStyle, NoTl, "none", 11)
\* <text x="10" font-size="16">Hello World</text>: on the left safe boundary.
Inside == Text(NumX(U(10)), NumFs(U(16), "in"), NoStyle, NoTl, "none", 11)
\* 40 characters at 16: wider than the cover's safe region.
TooWide == Text(NumX(U(5)), NumFs(U(16), "in"), NoStyle, NoTl, "none", 40)
\* 20 characters at 20, and the text the fixer turns it into on a cover.
Twenty == Text(NumX(U(5)), NumFs(U(20), "in"), NoStyle, NoTl, "none", 20)
Eighteen == Text(NumX(U(10)), NumFs(U(18), "px"), NoStyle, NoTl, "none", 20)
\* font-size="1.2.3": float() raises ValueError.
Unfloatable == Text(NumX(U(5)), BadFs, NoStyle, NoTl, "none", 11)
\* no x attribute.
Unplaced == Text(NoX, NumFs(U(16), "in"), NoStyle, NoTl, "none", 40)
\* textLength="100.03" at x="200".
Declared == Text(NumX(U(200)), NoFs, NoStyle, NumTl(Hundredths(10003)),
                 "none", 11)

\* The elements longer documents are built from.
CoreElems == {HelloWorld, Inside, TooWide, Twenty, Eighteen, Unfloatable,
              Unplaced, Declared}

RECURSIVE SeqsOf(_, _)
SeqsOf(S, n) ==
    IF n = 0 THEN {<<>>}
    ELSE LET shorter == SeqsOf(S, n - 1) IN
         shorter \cup {Append(s, e) : s \in {t \in shorter : Len(t) = n - 1},
                                       e \in S}

Docs == {<<e>> : e \in Elems} \cup SeqsOf(CoreElems, MaxElems)

(* ------------------------------------------------------ CoverLookupService *)

\* Longest self.services list of the cover lookup.
MaxServices == 3

CoverClasses == {"GoogleBooksCoverService", "GoodreadsCoverService",
                 "AICoverGeneratorService"}
\* What service.download_cover(book) does: raises, returns None, returns ''
\* or returns the path of a file.
CoverOutcomes == {"raises", "None", "empty", "path"}
CoverProviders == [cls : CoverClasses, out : CoverOutcomes]

\* What __init__ builds: the two web sources, and the AI generator unless
\* OpenAIService() raised.
ConstructedServices ==
    {<<"GoogleBooksCoverService", "GoodreadsCoverService">>,
     <<"GoogleBooksCoverService", "GoodreadsCoverService",
       "AICoverGeneratorService">>}

IsAI(p) == p.cls = "AICoverGeneratorService"

\* The indices, in list order, of the providers from position i on that are
\* (ai = TRUE) or are not (ai = FALSE) instances of AICoverGeneratorService.
RECURSIVE Tier(_, _, _)
Tier(svcs, i, ai) ==
    IF i > Len(svcs) THEN <<>>
    ELSE IF IsAI(svcs[i]) = ai THEN <<i>> \o Tier(svcs, i + 1, ai)
    ELSE Tier(svcs, i + 1, ai)

\* Mutant: the first loop runs over the whole list, generators included.
non_ai_of_unfiltered(svcs) == [i \in 1..Len(svcs) |-> i]

\* non_ai_services = [s for s in self.services if not isinstance(s, AI...)]
non_ai_of(svcs) == Tier(svcs, 1, FALSE)

\* ai_services = [s for s in self.services if isinstance(s, AI...)]
ai_of(svcs) == Tier(svcs, 1, TRUE)

(* ---------------------------------------------------- ContentLookupService *)

None == <<>>
Some(v) == <<v>>

Pages == {None, Some(0), Some(42), Some(100)}
Descriptions == {None, Some(""), Some("d1"), Some("d2")}
Books == [isbn : {"9780000000001"}, title : {"T1", "T2"}, author : {"A1"},
          publication_year : {None, Some(1999)},
          pages : Pages, description : Descriptions]

\* What service.lookup_by_isbn(isbn) does: raises, returns None or a Book.
LookupRaises == [k |-> "raises"]
LookupNone == [k |-> "None"]
LookupBook(b) == [k |-> "book", book |-> b]
LookupOutcomes == {LookupRaises, LookupNone} \cup {LookupBook(b) : b \in Books}

\* Python truthiness of Optional[int] and Optional[str].
TruthyPages(p) == p # None /\ p[1] # 0
TruthyDescription(d) == d # None /\ d[1] # ""

\* Mutant: the Goodreads value is copied whenever it is truthy.
merge_overwrites(google, goodreads) ==
    [google EXCEPT
        !.pages = IF TruthyPages(goodreads.pages)
                  THEN goodreads.pages ELSE @,
        !.description = IF TruthyDescription(goodreads.description)
                        THEN goodreads.description ELSE @]

\* Mutant: only a value of None counts as missing, on both sides.
merge_fills_none_only(google, goodreads) ==
    [google EXCEPT
        !.pages = IF @ = None /\ goodreads.pages # None
                  THEN goodreads.pages ELSE @,
        !.description = IF @ = None /\ goodreads.description # None
                        THEN goodreads.description ELSE @]

\* Lines 39-45: merged_book once both providers returned a Book.
merge(google, goodreads) ==
    [google EXCEPT
        !.pages = IF ~TruthyPages(@) /\ TruthyPages(goodreads.pages)
                  THEN goodreads.pages ELSE @,
        !.description = IF ~TruthyDescription(@)
                           /\ TruthyDescription(goodreads.description)
                        THEN goodreads.description ELSE @]

(* ------------------------------------------------------------ VersionStack *)

\* The most versions a stack is let grow to.
MaxVersions == 3

\* The texts a post or blip file holds: empty, unformatted and formatted.
Contents == {"", "raw", "fmt"}

\* format_content: a text without a body comes back as it is, an
\* unformatted text comes back formatted, a formatted text is left alone.
format_content(content) == IF content = "raw" THEN "fmt" ELSE content

\* body.strip() of process_with_ai, for the texts above.
has_body(content) == content # ""

\* The truth value Python gives a str in `if content:`.
Truthy(content) == content # ""

\* VersionStack(): versions = [], current_index = -1.
VersionStack == [versions |-> <<>>, current_index |-> -1]

\* push that appends behind the whole list and steps the index by one.
push_keeps_redo(s, content) ==
    [versions |-> Append(s.versions, content),
     current_index |-> s.current_index + 1]

\* push: versions[:current_index + 1] + [content], index on the last one.
push(s, content) ==
    LET kept == SubSeq(s.versions, 1, s.current_index + 1)
    IN  [versions |-> Append(kept, content), current_index |-> Len(kept)]

can_undo(s) == s.current_index > 0

can_redo(s) == s.current_index < Len(s.versions) - 1

\* undo and redo: the stack afterwards and the value returned; the list is
\* indexed from 0 in the source and from 1 here.
undo(s) ==
    IF can_undo(s)
    THEN [stack |-> [s EXCEPT !.current_index = @ - 1],
          ret |-> Some(s.versions[s.current_index])]
    ELSE [stack |-> s, ret |-> None]

redo(s) ==
    IF can_redo(s)
    THEN [stack |-> [s EXCEPT !.current_index = @ + 1],
          ret |-> Some(s.versions[s.current_index + 2])]
    ELSE [stack |-> s, ret |-> None]

\* format_post: the original is pushed and the formatted text written only
\* if formatting changed anything.
format_post(s, text) ==
    IF text # format_content(text)
    THEN [stack |-> push(s, text), text |-> format_content(text)]
    ELSE [stack |-> s, text |-> text]

\* undo_changes and redo_changes, the same in both tools: the file is
\* written and success printed only if the returned content is truthy.
undo_changes(s, text) ==
    LET r == undo(s)
    IN  IF r.ret # None /\ Truthy(r.ret[1])
        THEN [stack |-> r.stack, text |-> r.ret[1],
              printed |-> "Undid last change."]
        ELSE [stack |-> r.stack, text |-> text,
              printed |-> "Nothing to undo."]

redo_changes(s, text) ==
    LET r == redo(s)
    IN  IF r.ret # None /\ Truthy(r.ret[1])
        THEN [stack |-> r.stack, text |-> r.ret[1],
              printed |-> "Redid last change."]
        ELSE [stack |-> r.stack, text |-> text,
              printed |-> "Nothing to redo."]

(* ------------------------------------------------------------------ state *)

VARIABLES
    svg_content,    \* the argument of fix_overflow
    svg_type,       \* its svg_type argument
    calls,          \* how many times fix_overflow has been applied
    raised,         \* TRUE once a call has raised to its caller
    corrected,      \* fix_overflow(svg_content, svg_type), once called
    recorrected     \* fix_overflow(corrected, svg_type), once called

VARIABLES
    services,           \* CoverLookupService.services, each with its outcome
    cover_pc,           \* where download_cover stands
    non_ai_services,    \* its local lists, as indices into services
    ai_services,
    cover_i,            \* position of the running for loop
    cover_log,          \* provider invocations and printed messages, in order
    cover_result,       \* index of the provider whose path is returned; 0: None
    cover_raised        \* TRUE once download_cover raised to its caller

VARIABLES
    content_services,     \* ContentLookupService.services, with outcomes
    lookup_pc,            \* where lookup stands
    lookup_i,             \* position of the for loop
    google_books_result,  \* locals of lookup: None or Some(book)
    goodreads_result,
    lookup_log,           \* classes of the providers invoked, in order
    lookup_result,        \* what lookup returned: None or Some(book)
    lookup_raised         \* TRUE once lookup raised to its caller

VARIABLES
    models,       \* args.model: the models every run generates with
    parallel,     \* args.parallel: the number of runs
    main_pc,      \* where main stands: at the gather, past it, or exited
    runs          \* per run: its position, its locals, its calls and writes

VARIABLES
    tool,           \* which program runs: the bare class, posts or blips
    tool_pc,        \* where its run loop stands: before or in the menu loop
    path_text,      \* the text of the file at post_path / blip_path
    version_stack,  \* self.version_stack: versions and current_index
    history,        \* the last two operations, each with what it saw and did
    done            \* the names of the operations performed so far

fixer_vars == <<svg_content, svg_type, calls, raised, corrected, recorrected>>
cover_vars == <<services, cover_pc, non_ai_services, ai_services, cover_i,
                cover_log, cover_result, cover_raised>>
content_vars == <<content_services, lookup_pc, lookup_i, google_books_result,
                  goodreads_result, lookup_log, lookup_result, lookup_raised>>
runs_vars == <<models, parallel, main_pc, runs>>
stack_vars == <<tool, tool_pc, path_text, version_stack, history, done>>
vars == <<fixer_vars, cover_vars, content_vars, runs_vars, stack_vars>>

\* The fixer, the cover lookup and the content lookup before any call.
FixerIdle ==
    /\ calls = 0
    /\ raised = FALSE
    /\ corrected = <<>>
    /\ recorrected = <<>>

CoverIdle ==
    /\ cover_pc = "idle"
    /\ non_ai_services = <<>>
    /\ ai_services = <<>>
    /\ cover_i = 0
    /\ cover_log = <<>>
    /\ cover_result = 0
    /\ cover_raised = FALSE

ContentIdle ==
    /\ lookup_pc = "idle"
    /\ lookup_i = 0
    /\ google_books_result = None
    /\ goodreads_result = None
    /\ lookup_log = <<>>
    /\ lookup_result = None
    /\ lookup_raised = FALSE

RunsIdle ==
    /\ models = <<>>
    /\ parallel = 0
    /\ main_pc = "idle"
    /\ runs = <<>>

StackIdle ==
    /\ tool = "idle"
    /\ tool_pc = "idle"
    /\ path_text = ""
    /\ version_stack = VersionStack
    /\ history = <<>>
    /\ done = {}

InitFixer ==
    /\ svg_content \in Docs
    /\ svg_type \in Kinds
    /\ FixerIdle
    /\ services = <<>> /\ CoverIdle
    /\ content_services = <<>> /\ ContentIdle
    /\ RunsIdle
    /\ StackIdle

\* corrected_svg = overflow_fixer.fix_overflow(svg, kind)
FixOverflow ==
    /\ calls = 0
    /\ \E r \in {fix_overflow(svg_content, svg_type)} :
         /\ raised' = ~r.ok
         /\ corrected' = IF r.ok THEN r.v ELSE <<>>
    /\ calls' = 1
    /\ UNCHANGED <<svg_content, svg_type, recorrected>>
    /\ UNCHANGED <<cover_vars, content_vars, runs_vars, stack_vars>>

\* The corrector run again on its own output.
FixOverflowAgain ==
    /\ calls = 1
    /\ ~raised
    /\ \E r \in {fix_overflow(corrected, svg_type)} :
         /\ raised' = ~r.ok
         /\ recorrected' = IF r.ok THEN r.v ELSE <<>>
    /\ calls' = 2
    /\ UNCHANGED <<svg_content, svg_type, corrected>>
    /\ UNCHANGED <<cover_vars, content_vars, runs_vars, stack_vars>>

NextFixer == FixOverflow \/ FixOverflowAgain

SpecFixer == InitFixer /\ [][NextFixer]_vars

(* ----------------------------------------- CoverLookupService.download_cover *)

InitCover ==
    /\ services \in SeqsOf(CoverProviders, MaxServices)
    /\ CoverIdle
    /\ svg_content = <<>> /\ svg_type = "cover" /\ FixerIdle
    /\ content_services = <<>> /\ ContentIdle
    /\ RunsIdle
    /\ StackIdle

Invoke(s) == <<"invoke", s>>
PrintError(s) == <<"error", s>>
PrintFallback == <<"fallback", 0>>         \* lines 47-48
PrintAIFailed == <<"ai_failed", 0>>        \* lines 60-61
PrintNoAI == <<"no_ai", 0>>                \* lines 64-66

\* Lines 32-33: the two tiers are split off the list.
DownloadCover ==
    /\ cover_pc = "idle"
    /\ non_ai_services' = non_ai_of(services)
    /\ ai_services' = ai_of(services)
    /\ cover_pc' = "non_ai"
    /\ cover_i' = 1
    /\ UNCHANGED <<services, cover_log, cover_result, cover_raised>>
    /\ UNCHANGED <<fixer_vars, content_vars, runs_vars, stack_vars>>

\* Mutant: a path does not end the loop; the next provider is tried too.
AwaitNonAI_KeepsGoing ==
    /\ cover_pc = "non_ai"
    /\ cover_i <= Len(non_ai_services)
    /\ LET s == non_ai_services[cover_i]
           out == services[s].out
       IN  /\ cover_log' = IF out = "raises"
                           THEN cover_log \o <<Invoke(s), PrintError(s)>>
                           ELSE Append(cover_log, Invoke(s))
           /\ cover_result' = IF out = "path" THEN s ELSE cover_result
           /\ cover_i' = cover_i + 1
           /\ UNCHANGED cover_pc
    /\ UNCHANGED <<services, non_ai_services, ai_services, cover_raised>>
    /\ UNCHANGED <<fixer_vars, content_vars, runs_vars, stack_vars>>

\* Lines 36-43: one iteration of the loop over the regular providers.
AwaitNonAI ==
    /\ cover_pc = "non_ai"
    /\ cover_i <= Len(non_ai_services)
    /\ LET s == non_ai_services[cover_i]
           out == services[s].out
       IN  IF out = "path"
           THEN /\ cover_log' = Append(cover_log, Invoke(s))
                /\ cover_result' = s
                /\ cover_pc' = "done"
                /\ UNCHANGED cover_i
           ELSE /\ cover_log' = IF out = "raises"
                                THEN cover_log \o <<Invoke(s), PrintError(s)>>
                                ELSE Append(cover_log, Invoke(s))
                /\ cover_i' = cover_i + 1
                /\ UNCHANGED <<cover_result, cover_pc>>
    /\ UNCHANGED <<services, non_ai_services, ai_services, cover_raised>>
    /\ UNCHANGED <<fixer_vars, content_vars, runs_vars, stack_vars>>

\* Lines 46-48 and 62-68: the regular providers are exhausted.
NonAIExhausted ==
    /\ cover_pc = "non_ai"
    /\ cover_i > Len(non_ai_services)
    /\ IF ai_services # <<>>
       THEN /\ cover_log' = Append(cover_log, PrintFallback)
            /\ cover_pc' = "ai"
            /\ cover_i' = 1
            /\ UNCHANGED cover_result
       ELSE /\ cover_log' = Append(cover_log, PrintNoAI)
            /\ cover_pc' = "done"
            /\ cover_result' = 0
            /\ UNCHANGED cover_i
    /\ UNCHANGED <<services, non_ai_services, ai_services, cover_raised>>
    /\ UNCHANGED <<fixer_vars, content_vars, runs_vars, stack_vars>>

\* Mutant: no try/except around the generator's call.
AwaitAI_Uncaught ==
    /\ cover_pc = "ai"
    /\ cover_i <= Len(ai_services)
    /\ LET s == ai_services[cover_i]
           out == services[s].out
       IN  /\ cover_log' = Append(cover_log, Invoke(s))
           /\ IF out = "path"
              THEN cover_result' = s /\ cover_pc' = "done"
                   /\ UNCHANGED <<cover_i, cover_raised>>
              ELSE IF out = "raises"
              THEN cover_raised' = TRUE /\ cover_pc' = "done"
                   /\ UNCHANGED <<cover_i, cover_result>>
              ELSE cover_i' = cover_i + 1
                   /\ UNCHANGED <<cover_result, cover_pc, cover_raised>>
    /\ UNCHANGED <<services, non_ai_services, ai_services>>
    /\ UNCHANGED <<fixer_vars, content_vars, runs_vars, stack_vars>>

\* Lines 50-57: one iteration of the loop over the generative providers.
AwaitAI ==
    /\ cover_pc = "ai"
    /\ cover_i <= Len(ai_services)
    /\ LET s == ai_services[cover_i]
           out == services[s].out
       IN  IF out = "path"
           THEN /\ cover_log' = Append(cover_log, Invoke(s))
                /\ cover_result' = s
                /\ cover_pc' = "done"
                /\ UNCHANGED cover_i
           ELSE /\ cover_log' = IF out = "raises"
                                THEN cover_log \o <<Invoke(s), PrintError(s)>>
                                ELSE Append(cover_log, Invoke(s))
                /\ cover_i' = cover_i + 1
                /\ UNCHANGED <<cover_result, cover_pc>>
    /\ UNCHANGED <<services, non_ai_services, ai_services, cover_raised>>
    /\ UNCHANGED <<fixer_vars, content_vars, runs_vars, stack_vars>>

\* Lines 59-61 and 68: the generators failed too; None is returned.
AIExhausted ==
    /\ cover_pc = "ai"
    /\ cover_i > Len(ai_services)
    /\ cover_log' = Append(cover_log, PrintAIFailed)
    /\ cover_result' = 0
    /\ cover_pc' = "done"
    /\ UNCHANGED <<services, non_ai_services, ai_services, cover_i,
                   cover_raised>>
    /\ UNCHANGED <<fixer_vars, content_vars, runs_vars, stack_vars>>

NextCover ==
    \/ DownloadCover
    \/ AwaitNonAI
    \/ NonAIExhausted
    \/ AwaitAI
    \/ AIExhausted

SpecCover == InitCover /\ [][NextCover]_vars

(* ----------------------------------------------- ContentLookupService.lookup *)

ContentClasses == {"GoogleBooksService", "GoodreadsScraperService"}

\* self.services holds one GoogleBooksService and one GoodreadsScraperService
\* (__init__ lists Google Books first); each comes with what its
\* lookup_by_isbn will do.
InitContent ==
    /\ content_services \in
           {q \in [1..2 -> [cls : ContentClasses, out : LookupOutcomes]] :
                q[1].cls # q[2].cls}
    /\ ContentIdle
    /\ svg_content = <<>> /\ svg_type = "cover" /\ FixerIdle
    /\ services = <<>> /\ CoverIdle
    /\ RunsIdle
    /\ StackIdle

\* Lines 21-22: lookup is entered, both results start as None.
Lookup ==
    /\ lookup_pc = "idle"
    /\ lookup_pc' = "loop"
    /\ lookup_i' = 1
    /\ google_books_result' = None
    /\ goodreads_result' = None
    /\ UNCHANGED <<content_services, lookup_log, lookup_result, lookup_raised>>
    /\ UNCHANGED <<fixer_vars, cover_vars, runs_vars, stack_vars>>

\* Mutant: no try/except around lookup_by_isbn.
AwaitLookup_Uncaught ==
    /\ lookup_pc = "loop"
    /\ lookup_i <= Len(content_services)
    /\ LET service == content_services[lookup_i] IN
         /\ lookup_log' = Append(lookup_log, service.cls)
         /\ IF service.out.k = "raises"
            THEN /\ lookup_raised' = TRUE
                 /\ lookup_pc' = "done"
                 /\ UNCHANGED <<lookup_i, google_books_result,
                                goodreads_result>>
            ELSE /\ google_books_result' =
                        IF service.out.k = "book"
                           /\ service.cls = "GoogleBooksService"
                        THEN Some(service.out.book) ELSE google_books_result
                 /\ goodreads_result' =
                        IF service.out.k = "book"
                           /\ service.cls = "GoodreadsScraperService"
                        THEN Some(service.out.book) ELSE goodreads_result
                 /\ lookup_i' = lookup_i + 1
                 /\ UNCHANGED <<lookup_pc, lookup_raised>>
    /\ UNCHANGED <<content_services, lookup_result>>
    /\ UNCHANGED <<fixer_vars, cover_vars, runs_vars, stack_vars>>

\* Lines 24-34: one iteration of the loop over the services.
AwaitLookup ==
    /\ lookup_pc = "loop"
    /\ lookup_i <= Len(content_services)
    /\ LET service == content_services[lookup_i] IN
         /\ lookup_log' = Append(lookup_log, service.cls)
         /\ google_books_result' =
                IF service.out.k = "book" /\ service.cls = "GoogleBooksService"
                THEN Some(service.out.book) ELSE google_books_result
         /\ goodreads_result' =
                IF service.out.k = "book"
                   /\ service.cls = "GoodreadsScraperService"
                THEN Some(service.out.book) ELSE goodreads_result
    /\ lookup_i' = lookup_i + 1
    /\ UNCHANGED <<content_services, lookup_pc, lookup_result, lookup_raised>>
    /\ UNCHANGED <<fixer_vars, cover_vars, runs_vars, stack_vars>>

\* Mutant: the provider that stands first in the list has priority.
Merge_ListOrder ==
    /\ lookup_pc = "loop"
    /\ lookup_i > Len(content_services)
    /\ LET google_first == content_services[1].cls = "GoogleBooksService"
           first == IF google_first THEN google_books_result
                    ELSE goodreads_result
           second == IF google_first THEN goodreads_result
                     ELSE google_books_result
       IN  IF first # None
           THEN LET merged_book == IF second # None
                                   THEN merge(first[1], second[1])
                                   ELSE first[1]
                IN  /\ google_books_result' = Some(merged_book)
                    /\ lookup_result' = Some(merged_book)
           ELSE /\ lookup_result' = second
                /\ UNCHANGED google_books_result
    /\ lookup_pc' = "done"
    /\ UNCHANGED <<content_services, lookup_i, goodreads_result, lookup_log,
                   lookup_raised>>
    /\ UNCHANGED <<fixer_vars, cover_vars, runs_vars, stack_vars>>

\* Mutant: without the elif branch, a lone Goodreads result is dropped.
Merge_DropsSecondary ==
    /\ lookup_pc = "loop"
    /\ lookup_i > Len(content_services)
    /\ IF google_books_result # None
       THEN LET merged_book ==
                    IF goodreads_result # None
                    THEN merge(google_books_result[1], goodreads_result[1])
                    ELSE google_books_result[1]
            IN  /\ google_books_result' = Some(merged_book)
                /\ lookup_result' = Some(merged_book)
       ELSE /\ lookup_result' = None
            /\ UNCHANGED google_books_result
    /\ lookup_pc' = "done"
    /\ UNCHANGED <<content_services, lookup_i, goodreads_result, lookup_log,
                   lookup_raised>>
    /\ UNCHANGED <<fixer_vars, cover_vars, runs_vars, stack_vars>>

\* Lines 36-50: the results are merged and returned.  merged_book is the
\* Google Books object itself, so the fill-in shows in google_books_result.
Merge ==
    /\ lookup_pc = "loop"
    /\ lookup_i > Len(content_services)
    /\ IF google_books_result # None
       THEN LET merged_book ==
                    IF goodreads_result # None
                    THEN merge(google_books_result[1], goodreads_result[1])
                    ELSE google_books_result[1]
            IN  /\ google_books_result' = Some(merged_book)
                /\ lookup_result' = Some(merged_book)
       ELSE /\ lookup_result' = goodreads_result
            /\ UNCHANGED google_books_result
    /\ lookup_pc' = "done"
    /\ UNCHANGED <<content_services, lookup_i, goodreads_result, lookup_log,
                   lookup_raised>>
    /\ UNCHANGED <<fixer_vars, cover_vars, runs_vars, stack_vars>>

NextContent == Lookup \/ AwaitLookup \/ Merge

SpecContent == InitContent /\ [][NextContent]_vars

(* ------------------------------------------ main: the parallel generations *)

\* Most runs of one invocation (args.parallel).
MaxRuns == 2

\* --model may be given several times; without it main uses ['gpt-5'].
ModelLists == {<<"gpt-5">>, <<"gpt-5", "claude">>}

\* secrets.token_hex(2) draws one of 65536 tokens; two of them stand for all.
Tokens == {"a3f1", "07bc"}

\* datetime.now() to the second: the second main starts in, and the next.
Timestamps == {0, 1}

\* What an LLM hands back: markup, or the awaited call raises.  The markup
\* is one the corrector changes, and changes differently for the two kinds.
RawSvgs == {<<TooWide>>}
GeneratorRaises == [k |-> "raises"]
GeneratorReturns(svg) == [k |-> "svg", svg |-> svg]
GeneratorOutcomes == {GeneratorRaises} \cup {GeneratorReturns(d) : d \in RawSvgs}

\* f"{random_hash}_{book.isbn}_{kind}{model_suffix}_{timestamp}.svg"; every
\* run of an invocation has the same book.
model_suffix(ms, i) == IF Len(ms) > 1 THEN <<"_", ms[i]>> ELSE <<>>
Filename(random_hash, kind, suffix, timestamp) ==
    <<random_hash, kind, suffix, timestamp>>

\* What a run does that shows outside it, in order: its calls of the LLM
\* service, what they gave back, and the files it wrote.
Call(fn, model, cover_svg) == <<"call", fn, model, cover_svg>>
Return(svg) == <<"return", svg>>
Raise == <<"raise">>
Write(name, content) == <<"write", name, content>>

\* A coroutine object that has not run yet.
Created ==
    [pc |-> "created", timestamp |-> 0, random_hash |-> "", i |-> 0,
     trace |-> <<>>]

Started(r) == runs[r].pc # "created"
AllStarted == \A r \in 1..parallel : Started(r)
Pending(r) == runs[r].pc \in {"created", "cover", "banner"}

\* main has built the tasks and awaits asyncio.gather(*tasks).
InitRuns ==
    /\ models \in ModelLists
    /\ parallel \in 1..MaxRuns
    /\ main_pc = "gather"
    /\ runs = [r \in 1..parallel |-> Created]
    /\ svg_content = <<>> /\ svg_type = "cover" /\ FixerIdle
    /\ services = <<>> /\ CoverIdle
    /\ content_services = <<>> /\ ContentIdle
    /\ StackIdle

\* The tasks start in the order gather got them; each runs to its first await:
\* the timestamp and the token are drawn, the first model's cover is asked for.
StartRun(r) ==
    /\ main_pc = "gather"
    /\ runs[r].pc = "created"
    /\ \A q \in 1..(r - 1) : Started(q)
    /\ \E timestamp \in Timestamps, random_hash \in Tokens :
         /\ \A q \in 1..(r - 1) : runs[q].timestamp <= timestamp
         /\ runs' = [runs EXCEPT ![r] =
                [@ EXCEPT !.pc = "cover", !.timestamp = timestamp,
                          !.random_hash = random_hash, !.i = 1,
                          !.trace = <<Call("generate_cover_svg", models[1],
                                           <<>>)>>]]
    /\ UNCHANGED <<models, parallel, main_pc>>
    /\ UNCHANGED <<fixer_vars, cover_vars, content_vars, stack_vars>>

\* Mutant: the cover file gets the markup as the LLM gave it.
CoverGenerated_WritesRaw(r) ==
    /\ main_pc = "gather"
    /\ AllStarted
    /\ runs[r].pc = "cover"
    /\ \E out \in GeneratorOutcomes :
         IF out.k = "raises"
         THEN runs' = [runs EXCEPT ![r] =
                  [@ EXCEPT !.pc = "raised", !.trace = Append(@, Raise)]]
         ELSE \E corrected_cover_svg \in {fix_overflow(out.svg, "cover").v} :
              \E cover_filename \in
                    {Filename(runs[r].random_hash, "cover",
                              model_suffix(models, runs[r].i),
                              runs[r].timestamp)} :
                runs' = [runs EXCEPT ![r] =
                  [@ EXCEPT !.pc = "banner",
                            !.trace = @ \o
                              <<Return(out.svg),
                                Write(cover_filename, out.svg),
                                Call("generate_banner_svg", models[runs[r].i],
                                     corrected_cover_svg)>>]]
    /\ UNCHANGED <<models, parallel, main_pc>>
    /\ UNCHANGED <<fixer_vars, cover_vars, content_vars, stack_vars>>

\* generate_svg_pair lines 130-143, generate_svg_pair_direct lines 174-187:
\* the awaited cover call ends.  If it raises, so does the run; else the
\* markup is corrected, the cover file written and the banner asked for.
\* A response reaches a run only after the loop has started every task.
CoverGenerated(r) ==
    /\ main_pc = "gather"
    /\ AllStarted
    /\ runs[r].pc = "cover"
    /\ \E out \in GeneratorOutcomes :
         IF out.k = "raises"
         THEN runs' = [runs EXCEPT ![r] =
                  [@ EXCEPT !.pc = "raised", !.trace = Append(@, Raise)]]
         ELSE \E corrected_cover_svg \in {fix_overflow(out.svg, "cover").v} :
              \E cover_filename \in
                    {Filename(runs[r].random_hash, "cover",
                              model_suffix(models, runs[r].i),
                              runs[r].timestamp)} :
                runs' = [runs EXCEPT ![r] =
                  [@ EXCEPT !.pc = "banner",
                            !.trace = @ \o
                              <<Return(out.svg),
                                Write(cover_filename, corrected_cover_svg),
                                Call("generate_banner_svg", models[runs[r].i],
                                     corrected_cover_svg)>>]]
    /\ UNCHANGED <<models, parallel, main_pc>>
    /\ UNCHANGED <<fixer_vars, cover_vars, content_vars, stack_vars>>

\* generate_svg_pair lines 143-155, generate_svg_pair_direct lines 187-199:
\* the awaited banner call ends; the banner is corrected and written, and the
\* run goes on to the next model or returns.
BannerGenerated(r) ==
    /\ main_pc = "gather"
    /\ runs[r].pc = "banner"
    /\ \E out \in GeneratorOutcomes :
         IF out.k = "raises"
         THEN runs' = [runs EXCEPT ![r] =
                  [@ EXCEPT !.pc = "raised", !.trace = Append(@, Raise)]]
         ELSE \E corrected_banner_svg \in {fix_overflow(out.svg, "banner").v} :
              \E banner_filename \in
                    {Filename(runs[r].random_hash, "banner",
                              model_suffix(models, runs[r].i),
                              runs[r].timestamp)} :
                runs' = [runs EXCEPT ![r] =
                  IF runs[r].i < Len(models)
                  THEN [@ EXCEPT !.pc = "cover", !.i = @ + 1,
                                 !.trace = @ \o
                                   <<Return(out.svg),
                                     Write(banner_filename,
                                           corrected_banner_svg),
                                     Call("generate_cover_svg",
                                          models[runs[r].i + 1], <<>>)>>]
                  ELSE [@ EXCEPT !.pc = "returned",
                                 !.trace = @ \o
                                   <<Return(out.svg),
                                     Write(banner_filename,
                                           corrected_banner_svg)>>]]
    /\ UNCHANGED <<models, parallel, main_pc>>
    /\ UNCHANGED <<fixer_vars, cover_vars, content_vars, stack_vars>>

\* gather has no return_exceptions: the first exception of a run is raised
\* in main, whose except clause prints it and calls sys.exit(1) (lines
\* 504-506); asyncio.run then cancels every task that is not done.
GatherRaised ==
    /\ main_pc = "gather"
    /\ \E r \in 1..parallel : runs[r].pc = "raised"
    /\ main_pc' = "exited"
    /\ runs' = [r \in 1..parallel |->
                   IF Pending(r) THEN [runs[r] EXCEPT !.pc = "cancelled"]
                   ELSE runs[r]]
    /\ UNCHANGED <<models, parallel>>
    /\ UNCHANGED <<fixer_vars, cover_vars, content_vars, stack_vars>>

\* Every run returned its list of file names: gather returns them to main.
GatherReturned ==
    /\ main_pc = "gather"
    /\ \A r \in 1..parallel : runs[r].pc = "returned"
    /\ main_pc' = "returned"
    /\ UNCHANGED <<models, parallel, runs>>
    /\ UNCHANGED <<fixer_vars, cover_vars, content_vars, stack_vars>>

NextRuns ==
    \/ \E r \in 1..parallel : StartRun(r)
    \/ \E r \in 1..parallel : CoverGenerated(r)
    \/ \E r \in 1..parallel : BannerGenerated(r)
    \/ GatherRaised
    \/ GatherReturned

SpecRuns == InitRuns /\ [][NextRuns]_vars

(* ------------------------------------------ VersionStack, called directly *)

\* What an operation leaves in the history: its name, its argument, what it
\* returned or printed, and the stack and the file as it found them.
Op(name, content, ret, printed) ==
    [op |-> name, content |-> content, ret |-> ret, printed |-> printed,
     before |-> version_stack, text_before |-> path_text]

\* The history with one more operation: the last two are kept, the earlier
\* of them with its name, what it returned and the file as it found it.
Recorded(e) ==
    IF history = <<>>
    THEN <<e>>
    ELSE <<[op |-> history[Len(history)].op,
            ret |-> history[Len(history)].ret,
            text_before |-> history[Len(history)].text_before], e>>

Last == history[Len(history)]

\* A push that would grow the list past MaxVersions is not taken.
Room == version_stack.current_index + 2 <= MaxVersions

InitStack ==
    /\ tool = "VersionStack"
    /\ tool_pc = "idle"
    /\ path_text = ""
    /\ version_stack = VersionStack
    /\ history = <<>>
    /\ done = {}
    /\ svg_content = <<>> /\ svg_type = "cover" /\ FixerIdle
    /\ services = <<>> /\ CoverIdle
    /\ content_services = <<>> /\ ContentIdle
    /\ RunsIdle

\* version_stack.push(content)
Push(content) ==
    /\ Room
    /\ version_stack' = push(version_stack, content)
    /\ history' = Recorded(Op("push", content, None, ""))
    /\ done' = done \cup {"push"}
    /\ UNCHANGED <<tool, tool_pc, path_text>>
    /\ UNCHANGED <<fixer_vars, cover_vars, content_vars, runs_vars>>

\* version_stack.undo(), whether or not there is anything to undo
Undo ==
    /\ \E r \in {undo(version_stack)} :
          /\ version_stack' = r.stack
          /\ history' = Recorded(Op("undo", "", r.ret, ""))
    /\ done' = done \cup {"undo"}
    /\ UNCHANGED <<tool, tool_pc, path_text>>
    /\ UNCHANGED <<fixer_vars, cover_vars, content_vars, runs_vars>>

\* version_stack.redo(), whether or not there is anything to redo
Redo ==
    /\ \E r \in {redo(version_stack)} :
          /\ version_stack' = r.stack
          /\ history' = Recorded(Op("redo", "", r.ret, ""))
    /\ done' = done \cup {"redo"}
    /\ UNCHANGED <<tool, tool_pc, path_text>>
    /\ UNCHANGED <<fixer_vars, cover_vars, content_vars, runs_vars>>

NextStack ==
    \/ \E content \in Contents : Push(content)
    \/ Undo
    \/ Redo

SpecStack == InitStack /\ [][NextStack]_vars

(* ------------------------------------- the posts tool and the blips tool *)

\* The operations of the posts tool a round trip is claimed for.
SelectFormatReplace == {"select", "format", "ai_replace", "u", "r"}

\* run_interactive and run before their menu loops; the file holds what the
\* selected post holds, or what the first edit of the new blip saved.
InitTools ==
    /\ tool \in {"posts", "blips"}
    /\ tool_pc = "start"
    /\ path_text \in Contents
    /\ version_stack = VersionStack
    /\ history = <<>>
    /\ done = {}
    /\ svg_content = <<>> /\ svg_type = "cover" /\ FixerIdle
    /\ services = <<>> /\ CoverIdle
    /\ content_services = <<>> /\ ContentIdle
    /\ RunsIdle

\* run_interactive up to its loop: the selected post's text is pushed and
\* the post is formatted.
PostsStart ==
    /\ tool = "posts" /\ tool_pc = "start"
    /\ \E r \in {format_post(push(version_stack, path_text), path_text)} :
          /\ version_stack' = r.stack
          /\ path_text' = r.text
    /\ tool_pc' = "menu"
    /\ history' = Recorded(Op("select", path_text, None, ""))
    /\ done' = done \cup {"select"}
    /\ UNCHANGED tool
    /\ UNCHANGED <<fixer_vars, cover_vars, content_vars, runs_vars>>

\* choice 'select': another post, holding content, is selected; the stack
\* is replaced by a new one, the text pushed and the post formatted.
SelectPost(content) ==
    /\ tool = "posts" /\ tool_pc = "menu"
    /\ \E r \in {format_post(push(VersionStack, content), content)} :
          /\ version_stack' = r.stack
          /\ path_text' = r.text
    /\ history' = Recorded(Op("select", content, None, ""))
    /\ done' = done \cup {"select"}
    /\ UNCHANGED <<tool, tool_pc>>
    /\ UNCHANGED <<fixer_vars, cover_vars, content_vars, runs_vars>>

\* choice 'format'
FormatPost ==
    /\ tool = "posts" /\ tool_pc = "menu"
    /\ path_text # format_content(path_text) => Room
    /\ \E r \in {format_post(version_stack, path_text)} :
          /\ version_stack' = r.stack
          /\ path_text' = r.text
    /\ history' = Recorded(Op("format", "", None, ""))
    /\ done' = done \cup {"format"}
    /\ UNCHANGED <<tool, tool_pc>>
    /\ UNCHANGED <<fixer_vars, cover_vars, content_vars, runs_vars>>

\* choice 're_slug', the post renamed: a new stack with the text pushed.
ReSlug ==
    /\ tool = "posts" /\ tool_pc = "menu"
    /\ version_stack' = push(VersionStack, path_text)
    /\ history' = Recorded(Op("re_slug", "", None, ""))
    /\ done' = done \cup {"re_slug"}
    /\ UNCHANGED <<tool, tool_pc, path_text>>
    /\ UNCHANGED <<fixer_vars, cover_vars, content_vars, runs_vars>>

\* choice 'ai_prompt', then 1: process_with_ai wants a body, the model's
\* answer comes back formatted, _direct_edit pushes the original and writes
\* the answer; the editor opened afterwards leaves the file holding saved.
DirectEdit(ai_result, saved) ==
    /\ tool = "posts" /\ tool_pc = "menu"
    /\ has_body(path_text)
    /\ Room
    /\ version_stack' = push(version_stack, path_text)
    /\ path_text' = saved
    /\ history' = Recorded(Op("ai_replace", format_content(ai_result),
                              None, ""))
    /\ done' = done \cup {"ai_replace"}
                    \cup IF saved # format_content(ai_result)
                         THEN {"edit"} ELSE {}
    /\ UNCHANGED <<tool, tool_pc>>
    /\ UNCHANGED <<fixer_vars, cover_vars, content_vars, runs_vars>>

\* choice 'ai_prompt', then 2: _vimdiff_review pushes the original; vimdiff
\* leaves the file holding saved.
VimdiffReview(saved) ==
    /\ tool = "posts" /\ tool_pc = "menu"
    /\ has_body(path_text)
    /\ Room
    /\ version_stack' = push(version_stack, path_text)
    /\ path_text' = saved
    /\ history' = Recorded(Op("vimdiff", "", None, ""))
    /\ done' = done \cup {"vimdiff"}
    /\ UNCHANGED <<tool, tool_pc>>
    /\ UNCHANGED <<fixer_vars, cover_vars, content_vars, runs_vars>>

\* choice 'edit' of the posts tool: the editor runs, nothing is pushed.
EditPost(saved) ==
    /\ tool = "posts" /\ tool_pc = "menu"
    /\ path_text' = saved
    /\ history' = Recorded(Op("edit", "", None, ""))
    /\ done' = done \cup {"edit"}
    /\ UNCHANGED <<tool, tool_pc, version_stack>>
    /\ UNCHANGED <<fixer_vars, cover_vars, content_vars, runs_vars>>

\* run of the blips tool up to its loop: the first edit's text is pushed.
BlipsStart ==
    /\ tool = "blips" /\ tool_pc = "start"
    /\ version_stack' = push(version_stack, path_text)
    /\ tool_pc' = "menu"
    /\ history' = Recorded(Op("start", path_text, None, ""))
    /\ done' = done \cup {"start"}
    /\ UNCHANGED <<tool, path_text>>
    /\ UNCHANGED <<fixer_vars, cover_vars, content_vars, runs_vars>>

\* choices 'copyread' and 'custom_ai': the processed text is pushed and
\* written; the editor opened afterwards leaves the file holding saved.
AiProcessing(full_processed_content, saved) ==
    /\ tool = "blips" /\ tool_pc = "menu"
    /\ Room
    /\ version_stack' = push(version_stack, full_processed_content)
    /\ path_text' = saved
    /\ history' = Recorded(Op("ai", full_processed_content, None, ""))
    /\ done' = done \cup {"ai"}
    /\ UNCHANGED <<tool, tool_pc>>
    /\ UNCHANGED <<fixer_vars, cover_vars, content_vars, runs_vars>>

\* choice 'edit' of the blips tool: what the editor saved is pushed; an
\* editor that saved nothing leaves file and stack alone.
EditManually(changed, saved) ==
    /\ tool = "blips" /\ tool_pc = "menu"
    /\ IF changed
       THEN /\ Room
            /\ path_text' = saved
            /\ version_stack' = push(version_stack, saved)
       ELSE UNCHANGED <<path_text, version_stack>>
    /\ history' = Recorded(Op("edit", "", None, ""))
    /\ done' = done \cup {"edit"}
    /\ UNCHANGED <<tool, tool_pc>>
    /\ UNCHANGED <<fixer_vars, cover_vars, content_vars, runs_vars>>

\* choice 'u', which the menus accept only if can_undo()
UndoChanges ==
    /\ tool \in {"posts", "blips"} /\ tool_pc = "menu"
    /\ can_undo(version_stack)
    /\ \E r \in {undo_changes(version_stack, path_text)} :
          /\ version_stack' = r.stack
          /\ path_text' = r.text
          /\ history' = Recorded(Op("u", "", None, r.printed))
    /\ done' = done \cup {"u"}
    /\ UNCHANGED <<tool, tool_pc>>
    /\ UNCHANGED <<fixer_vars, cover_vars, content_vars, runs_vars>>

\* choice 'r', which the menus accept only if can_redo()
RedoChanges ==
    /\ tool \in {"posts", "blips"} /\ tool_pc = "menu"
    /\ can_redo(version_stack)
    /\ \E r \in {redo_changes(version_stack, path_text)} :
          /\ version_stack' = r.stack
          /\ path_text' = r.text
          /\ history' = Recorded(Op("r", "", None, r.printed))
    /\ done' = done \cup {"r"}
    /\ UNCHANGED <<tool, tool_pc>>
    /\ UNCHANGED <<fixer_vars, cover_vars, content_vars, runs_vars>>

NextTools ==
    \/ PostsStart
    \/ \E content \in Contents : SelectPost(content)
    \/ FormatPost
    \/ ReSlug
    \/ \E ai_result, saved \in Contents : DirectEdit(ai_result, saved)
    \/ \E saved \in Contents : VimdiffReview(saved)
    \/ \E saved \in Contents : EditPost(saved)
    \/ BlipsStart
    \/ \E full_processed_content, saved \in Contents :
          AiProcessing(full_processed_content, saved)
    \/ \E changed \in BOOLEAN, saved \in Contents :
          EditManually(changed, saved)
    \/ UndoChanges
    \/ RedoChanges

SpecTools == InitTools /\ [][NextTools]_vars

(* ------------------------------------------- claims: the overflow corrector *)

\* The detector's verdict on one element of a document of this kind.
Flagged(e, kind) ==
    LET c == canvas_size(kind)
        r == appears_to_overflow(e, c[1], c[2])
    IN  r.ok /\ r.v

\* The safe-boundary inequalities, stated from the bounds: the detector
\* reads a numeric x off the element and leftEdge < margin or rightEdge >
\* canvasWidth - margin.
ViolatesSafeBounds(e, kind) ==
    /\ x_parses(e)
    /\ get_text_width(e).ok
    /\ LET c == canvas_size(kind)
           b == calculate_text_bounds(e.x.v, get_text_width(e).v,
                                      extract_text_anchor(e))
       IN  b[1] < c[2] \/ b[2] > c[1] - c[2]

\* C1: fix_overflow is idempotent: a second call on the output of the first
\* returns that output unchanged.
C1_Idempotent == calls = 2 => recorrected = corrected

\* C2: after one call, no element of the returned document with a parsable x
\* violates leftEdge >= margin and rightEdge <= canvasWidth - margin.
C2_NothingFlaggedAfterOnePass ==
    calls >= 1 =>
        \A i \in DOMAIN corrected : ~ViolatesSafeBounds(corrected[i], svg_type)

\* C3: a document none of whose elements violates the safe-boundary
\* inequalities is returned unchanged.
C3_NonOverflowPreserved ==
    (calls >= 1 /\ \A i \in DOMAIN svg_content :
                       ~ViolatesSafeBounds(svg_content[i], svg_type))
        => corrected = svg_content

\* A document with an element lying exactly on a safe boundary and nothing
\* violating the inequalities has gone through fix_overflow.
C3_Witness ==
    /\ calls >= 1
    /\ \A i \in DOMAIN svg_content :
           ~ViolatesSafeBounds(svg_content[i], svg_type)
    /\ \E i \in DOMAIN svg_content : svg_content[i] = Inside
    /\ Len(svg_content) = 2

\* C4: fix_overflow never raises to its caller, and when a step inside it
\* raises it returns the original svg_content, partial corrections dropped.
C4_NeverRaises ==
    calls >= 1 =>
        /\ ~raised
        /\ ~try_block(svg_content, svg_type).ok => corrected = svg_content

\* An element was already corrected in the loop when a later one raised.
C4_Witness ==
    /\ calls = 1
    /\ svg_type = "cover"
    /\ Len(svg_content) = 2
    /\ Flagged(svg_content[1], svg_type)
    /\ LET c == canvas_size(svg_type)
           f == apply_minimal_fix(svg_content[1], c[1], c[2])
       IN  f.ok /\ f.v # svg_content[1]
    /\ ~try_block(svg_content, svg_type).ok
    /\ corrected = svg_content

\* The font size the detector reads from an element (0 when float() raises).
FontOf(e) == IF extract_font_size(e).ok THEN extract_font_size(e).v ELSE 0

\* C5: the font size of an element after one call is its font size before,
\* or that size times 0.9 floored at 10: never below 10 when written, and
\* never reduced twice.
C5_FloorAndSingleShrink ==
    (calls >= 1 /\ ~raised) =>
        \A i \in DOMAIN svg_content :
            LET before == FontOf(svg_content[i])
                after == FontOf(corrected[i])
            IN  \/ after = before
                \/ /\ after = Max((before * font_reduction) \div 10,
                                  min_font_size * Unit)
                   /\ after >= min_font_size * Unit

(* ------------------------------------------------- claims: the cover lookup *)

\* The providers download_cover has invoked so far, in order of invocation.
Invoked ==
    LET inv == SelectSeq(cover_log, LAMBDA ev : ev[1] = "invoke")
    IN  [j \in 1..Len(inv) |-> inv[j][2]]

\* C6: within a tier the providers are invoked in list order, none skipped
\* and none twice; a provider that raised or returned nothing is followed by
\* the next one; the first provider to return a path ends the call, its path
\* is the result, and no provider is invoked after it.
C6_FirstSuccess ==
    LET inv == Invoked IN
    /\ \A j \in 1..Len(inv) :
        /\ \A h \in 1..Len(inv) : h # j => inv[h] # inv[j]
        /\ \A k \in 1..Len(services) :
               (IsAI(services[k]) = IsAI(services[inv[j]]) /\ k < inv[j])
                   => \E h \in 1..(j - 1) : inv[h] = k
        /\ services[inv[j]].out = "path"
               => (j = Len(inv) /\ cover_pc = "done" /\ cover_result = inv[j])
    /\ (cover_pc = "done" /\ cover_result # 0)
           => /\ inv # <<>>
              /\ cover_result = inv[Len(inv)]
              /\ services[cover_result].out = "path"
    /\ (cover_pc = "done" /\ cover_result = 0)
           => /\ \A k \in 1..Len(services) : services[k].out # "path"
              /\ Len(inv) = Len(services)

\* Providers [A raises, B returns path1, C returns path2]: the result is
\* path1 and C was never invoked.
C6_Witness ==
    /\ cover_pc = "done"
    /\ Len(services) = 3
    /\ \A k \in 1..3 : ~IsAI(services[k])
    /\ services[1].out = "raises"
    /\ services[2].out = "path"
    /\ services[3].out = "path"
    /\ cover_result = 2
    /\ Invoked = <<1, 2>>

\* C7: when a generative provider is invoked, every regular provider of the
\* list, wherever it stands in it, was invoked before and gave no path, and
\* the tier-transition message was printed after the last regular provider
\* and before the first generative one.
C7_TierOrdering ==
    \A p \in 1..Len(cover_log) :
        (cover_log[p][1] = "invoke" /\ IsAI(services[cover_log[p][2]])) =>
            /\ \A k \in 1..Len(services) :
                   ~IsAI(services[k]) =>
                       /\ services[k].out # "path"
                       /\ \E q \in 1..(p - 1) : cover_log[q] = Invoke(k)
            /\ \E m \in 1..(p - 1) :
                   /\ cover_log[m] = PrintFallback
                   /\ \A q \in 1..Len(cover_log) :
                          (cover_log[q][1] = "invoke"
                           /\ ~IsAI(services[cover_log[q][2]])) => q < m

\* A generator listed before a regular provider was invoked after it.
C7_Witness ==
    /\ cover_pc = "done"
    /\ Len(services) = 3
    /\ IsAI(services[1]) /\ ~IsAI(services[2]) /\ ~IsAI(services[3])
    /\ Invoked = <<2, 3, 1>>
    /\ cover_result = 1

\* C8: download_cover never raises to its caller, and when no provider of
\* either tier returns a path it returns None.
C8_TotalExhaustion ==
    /\ ~cover_raised
    /\ cover_pc = "done" =>
           ((\A k \in 1..Len(services) : services[k].out # "path")
                => cover_result = 0)

\* The constructed list, every provider of it raising: None is returned.
C8_Witness ==
    /\ cover_pc = "done"
    /\ [k \in 1..Len(services) |-> services[k].cls] \in ConstructedServices
    /\ Len(services) = 3
    /\ \A k \in 1..Len(services) : services[k].out = "raises"
    /\ Len(Invoked) = 3
    /\ cover_result = 0
    /\ ~cover_raised

(* ----------------------------------------------- claims: the content lookup *)

\* What the provider of this class returned in this call.
OutcomeOf(cls) ==
    LET j == CHOOSE j \in 1..Len(content_services) :
                 content_services[j].cls = cls
    IN  content_services[j].out

Primary == OutcomeOf("GoogleBooksService")
Secondary == OutcomeOf("GoodreadsScraperService")

\* C9: lookup never raises to its caller, and by the time it returns it has
\* invoked both providers, whatever either of them did.
C9_BothInvoked ==
    /\ ~lookup_raised
    /\ lookup_pc = "done" =>
           \A cls \in ContentClasses :
               \E j \in 1..Len(lookup_log) : lookup_log[j] = cls

\* The first provider of the list raised, the second was invoked and
\* returned a Book, which lookup returned.
C9_Witness ==
    /\ lookup_pc = "done"
    /\ content_services[1].out.k = "raises"
    /\ content_services[2].out.k = "book"
    /\ Len(lookup_log) = 2
    /\ lookup_result = Some(content_services[2].out.book)
    /\ ~lookup_raised

\* "Present" read as "not None".
FirstPresent(p, q) == IF p # None THEN p ELSE IF q # None THEN q ELSE p

\* C10 as stated: with both providers successful, pages and description are
\* the primary's value if it is not None, else the secondary's if that is
\* not None, and the other four fields are the primary's.
C10_MergePrecedence_Original ==
    (lookup_pc = "done" /\ Primary.k = "book" /\ Secondary.k = "book") =>
        LET g == Primary.book
            r == Secondary.book
            m == lookup_result[1]
        IN  /\ lookup_result # None
            /\ m.pages = FirstPresent(g.pages, r.pages)
            /\ m.description = FirstPresent(g.description, r.description)
            /\ m.isbn = g.isbn /\ m.title = g.title /\ m.author = g.author
            /\ m.publication_year = g.publication_year

\* C10 as amended: "present" is Python truthiness (not None, not 0, not '').
\* With both providers successful, pages (description) is the primary's
\* value if that is truthy, else the secondary's if that is truthy, else the
\* primary's own value; the other four fields are the primary's.
C10_MergePrecedence ==
    (lookup_pc = "done" /\ Primary.k = "book" /\ Secondary.k = "book") =>
        LET g == Primary.book
            r == Secondary.book
            m == lookup_result[1]
        IN  /\ lookup_result # None
            /\ m.pages = IF TruthyPages(g.pages) THEN g.pages
                         ELSE IF TruthyPages(r.pages) THEN r.pages
                         ELSE g.pages
            /\ m.description =
                   IF TruthyDescription(g.description) THEN g.description
                   ELSE IF TruthyDescription(r.description) THEN r.description
                   ELSE g.description
            /\ m.isbn = g.isbn /\ m.title = g.title /\ m.author = g.author
            /\ m.publication_year = g.publication_year

\* primary = Book(pages=None, description="d1"), secondary = Book(pages=42,
\* description="d2"), with another title and year: pages 42, description d1.
C10_Witness ==
    /\ lookup_pc = "done"
    /\ Primary.k = "book" /\ Secondary.k = "book"
    /\ Primary.book.pages = None /\ Primary.book.description = Some("d1")
    /\ Secondary.book.pages = Some(42)
    /\ Secondary.book.description = Some("d2")
    /\ Primary.book.title # Secondary.book.title
    /\ Primary.book.publication_year # Secondary.book.publication_year
    /\ lookup_result # None
    /\ lookup_result[1].pages = Some(42)
    /\ lookup_result[1].description = Some("d1")
    /\ lookup_result[1].title = Primary.book.title

\* C11: if only the secondary provider produced a Book, lookup returns that
\* Book with every field as the provider gave it; if only the primary did,
\* lookup returns the primary's Book as given; lookup returns None if and
\* only if neither provider produced a Book.
C11_MergeOutcomes ==
    lookup_pc = "done" =>
        /\ (Primary.k # "book" /\ Secondary.k = "book")
               => lookup_result = Some(Secondary.book)
        /\ (Primary.k = "book" /\ Secondary.k # "book")
               => lookup_result = Some(Primary.book)
        /\ lookup_result = None
               <=> (Primary.k # "book" /\ Secondary.k # "book")

\* Google Books raised, Goodreads returned a Book without pages and with an
\* empty description: lookup returned exactly that Book.
C11_Witness ==
    /\ lookup_pc = "done"
    /\ Primary.k = "raises"
    /\ Secondary.k = "book"
    /\ Secondary.book.pages = None
    /\ Secondary.book.description = Some("")
    /\ lookup_result = Some(Secondary.book)

(* ------------------------------ claims: bounds, detector and the two phases *)

\* The element has a numeric x and a width the detector can compute.
Measurable(e) == e.x.k = "num" /\ get_text_width(e).ok

\* <<leftEdge, rightEdge>> of a measurable element.
BoundsOf(e) ==
    calculate_text_bounds(e.x.v, get_text_width(e).v, extract_text_anchor(e))

FixOf(e, kind) ==
    Eval({apply_minimal_fix(e, c[1], c[2]) : c \in {canvas_size(kind)}})

\* C16: when no step raises, every flagged element of the document stands in
\* the result as the two-phase fix applied once to its original text,
\* whatever else the document holds, and every other element stands there
\* as it was.
C16_IndependentSubstitution ==
    (calls >= 1 /\ try_block(svg_content, svg_type).ok) =>
        /\ Len(corrected) = Len(svg_content)
        /\ \A i \in DOMAIN svg_content :
               corrected[i] = IF Flagged(svg_content[i], svg_type)
                              THEN FixOf(svg_content[i], svg_type).v
                              ELSE svg_content[i]

\* Phase 1 alone on one element of a document of this kind.
RepositionOf(e, kind) ==
    Eval({try_reposition(e, c[1], c[2]) : c \in {canvas_size(kind)}})

\* C17: when phase 1 writes an x for a flagged element, the edges recomputed
\* from the x as written lie exactly on the boundary aimed at: leftEdge on
\* margin if the element overflowed on the left, else rightEdge on
\* canvasWidth - margin.
C17_ExactBoundary ==
    calls >= 1 =>
        \A i \in DOMAIN svg_content :
            \A e \in {svg_content[i]} :
                (Flagged(e, svg_type) /\ RepositionOf(e, svg_type).ok) =>
                    \A f \in {RepositionOf(e, svg_type).v} :
                    \A c \in {canvas_size(svg_type)} :
                        f.x # e.x =>
                            IF BoundsOf(e)[1] < c[2]
                            THEN BoundsOf(f)[1] = c[2]
                            ELSE BoundsOf(f)[2] = c[1] - c[2]

Reduced(e) ==
    NumFs(Max((extract_font_size(e).v * font_reduction) \div 10,
              min_font_size * Unit), "px")

\* Phase 2 acted on element e of the document: it was flagged, and so was
\* the element phase 1 made of it.
Phase2Acts(e) ==
    /\ Flagged(e, svg_type)
    /\ FixOf(e, svg_type).ok
    /\ Flagged(RepositionOf(e, svg_type).v, svg_type)

\* C19 as stated: the reduced size goes to the font-size attribute if the
\* element has one, else to the font-size: declaration of its style if that
\* carries the size, and if the element has neither, with or without a
\* style attribute, to a new font-size attribute.
C19_WriteBackLocation_Original ==
    calls >= 1 =>
        \A i \in DOMAIN svg_content :
            Phase2Acts(svg_content[i]) =>
                \A e \in {RepositionOf(svg_content[i], svg_type).v} :
                \A fixed \in {FixOf(svg_content[i], svg_type).v} :
                    /\ e.fs.k # "none" => fixed = [e EXCEPT !.fs = Reduced(e)]
                    /\ (e.fs.k = "none" /\ e.st.k = "some" /\ e.st.f.k = "num")
                           => fixed = [e EXCEPT !.st.f = Reduced(e)]
                    /\ (e.fs.k = "none"
                        /\ (e.st.k = "none" \/ e.st.f.k = "none"))
                           => fixed = [e EXCEPT !.fs = Reduced(e)]

\* C19 as amended: the reduced size goes to the font-size attribute if the
\* element has one; else, if it has a style attribute, into that: in place
\* of the number of its font-size: declaration, or appended as a new
\* declaration if the style has none, and nowhere if the declaration has no
\* number; only an element with neither a font-size nor a style attribute
\* gets a new font-size attribute.
C19_WriteBackLocation ==
    calls >= 1 =>
        \A i \in DOMAIN svg_content :
            Phase2Acts(svg_content[i]) =>
                \A e \in {RepositionOf(svg_content[i], svg_type).v} :
                \A fixed \in {FixOf(svg_content[i], svg_type).v} :
                    /\ e.fs.k # "none" => fixed = [e EXCEPT !.fs = Reduced(e)]
                    /\ (e.fs.k = "none" /\ e.st.k = "some"
                        /\ e.st.f.k \in {"num", "none"})
                           => fixed = [e EXCEPT !.st.f = Reduced(e)]
                    /\ (e.fs.k = "none" /\ e.st.k = "some"
                        /\ e.st.f.k = "nonum")
                           => fixed = e
                    /\ (e.fs.k = "none" /\ e.st.k = "none")
                           => fixed = [e EXCEPT !.fs = Reduced(e)]
                    /\ Len(svg_content) = 1 => corrected[1] = fixed

\* An element with style="text-anchor: middle" and no font size anywhere
\* was shrunk: the size is in its style, and it has no font-size attribute.
C19_Witness ==
    /\ calls >= 1
    /\ Len(svg_content) = 1
    /\ Phase2Acts(svg_content[1])
    /\ svg_content[1].fs = NoFs
    /\ svg_content[1].st = Style(NoFs, "middle")
    /\ corrected[1].fs = NoFs
    /\ corrected[1].st.f = NumFs((U(16) * font_reduction) \div 10, "px")

\* C20: an element with a numeric x is flagged if and only if its leftEdge
\* is below the margin or its rightEdge beyond canvasWidth - margin, an edge
\* exactly on either boundary not counting; the canvas is 1024 wide for kind
\* 'banner' and 236 wide for every other kind, the margin 10 for all; and
\* what the detector does not flag is returned as it was.
C20_DetectorRule ==
    calls >= 1 =>
        \A canvasWidth \in {IF svg_type = "banner" THEN U(1024) ELSE U(236)} :
        \A margin \in {U(10)} :
            /\ \A i \in DOMAIN svg_content :
                   Measurable(svg_content[i]) =>
                       \A b \in {BoundsOf(svg_content[i])} :
                           /\ Flagged(svg_content[i], svg_type)
                                  <=> (b[1] < margin
                                       \/ b[2] > canvasWidth - margin)
                           /\ (b[1] >= margin /\ b[2] <= canvasWidth - margin)
                                  => ~Flagged(svg_content[i], svg_type)
            /\ (\A i \in DOMAIN svg_content :
                    ~Flagged(svg_content[i], svg_type))
                   => corrected = svg_content

\* On a kind that is neither cover nor banner, an element whose leftEdge is
\* exactly the margin was not flagged and came back as it was, next to an
\* element that was flagged and changed.
C20_Witness ==
    /\ calls >= 1
    /\ svg_type = "thumbnail"
    /\ Len(svg_content) = 2
    /\ svg_content[1] = Inside
    /\ BoundsOf(Inside)[1] = U(10)
    /\ ~Flagged(Inside, svg_type)
    /\ Flagged(svg_content[2], svg_type)
    /\ corrected[1] = Inside
    /\ corrected[2] # svg_content[2]

\* characters x font size x 0.7, for an element whose font size parses.
Estimate(e) == (e.len * extract_font_size(e).v * avg_char_width) \div 10

\* C21: the width of an element with a numeric textLength is that value,
\* whatever its text and font size, and the estimate is the width only
\* without one; the detector's verdict on such an element and the x the
\* fix gives it are those of the same element with another text, and the
\* width is the same after a fix that changed the font size.
C21_DeclaredWidthPrecedence ==
    calls >= 1 =>
        \A i \in DOMAIN svg_content :
            \A e \in {svg_content[i]} :
                /\ e.tl.k = "num" => get_text_width(e) = Ok(e.tl.v)
                /\ (e.tl.k # "num" /\ extract_font_size(e).ok)
                       => get_text_width(e) = Ok(Estimate(e))
                /\ (e.tl.k = "num" /\ FixOf(e, svg_type).ok) =>
                       \A other \in {[e EXCEPT !.len = 1]} :
                       \A fixed \in {FixOf(e, svg_type).v} :
                           /\ Flagged(e, svg_type) = Flagged(other, svg_type)
                           /\ fixed.x = FixOf(other, svg_type).v.x
                           /\ get_text_width(fixed) = Ok(e.tl.v)

\* textLength="100.03" at x="200" on the cover: moved to x="126.0" by the
\* declared width, its font size reduced, its width still 100.03.
C21_Witness ==
    /\ calls >= 1
    /\ svg_type = "cover"
    /\ svg_content = <<Declared>>
    /\ corrected[1].x = NumX(U(126))
    /\ corrected[1].fs # Declared.fs
    /\ get_text_width(corrected[1]) = Ok(Hundredths(10003))
    /\ Estimate(Declared) # Hundredths(10003)

\* The element has no x attribute, or one that is not a number.
Unparseable(e) == e.x.k \in {"none", "dx", "bad"}

\* C22: an element whose x attribute is absent or not a number is not
\* flagged, makes the detector raise nothing, and stands in the result as it
\* was; and when no step raises, the flagged elements of the same document
\* are still fixed.
C22_UnparseableSkipped ==
    calls >= 1 =>
        \A i \in DOMAIN svg_content :
            Unparseable(svg_content[i]) =>
                /\ \A c \in {canvas_size(svg_type)} :
                       appears_to_overflow(svg_content[i], c[1], c[2])
                           = Ok(FALSE)
                /\ Len(corrected) = Len(svg_content)
                /\ corrected[i] = svg_content[i]
                /\ try_block(svg_content, svg_type).ok =>
                       \A j \in DOMAIN svg_content :
                           Flagged(svg_content[j], svg_type) =>
                               corrected[j] = FixOf(svg_content[j],
                                                    svg_type).v

\* The x that puts the left edge of a text of this width on `edge`, and the
\* x that puts its right edge there.
XForLeftEdge(edge, width, text_anchor) ==
    IF text_anchor = "middle" THEN edge + width \div 2
    ELSE IF text_anchor = "end" THEN edge + width
    ELSE edge

XForRightEdge(edge, width, text_anchor) ==
    IF text_anchor = "middle" THEN edge - width \div 2
    ELSE IF text_anchor = "end" THEN edge
    ELSE edge - width

\* The x phase 1 aims at for a flagged element: the left edge on the margin
\* if it overflows on the left, else the right edge on canvasWidth - margin.
NewX(e, kind) ==
    LET c == canvas_size(kind)
        w == get_text_width(e).v
        a == extract_text_anchor(e)
    IN  IF BoundsOf(e)[1] < c[2] THEN XForLeftEdge(c[2], w, a)
        ELSE XForRightEdge(c[1] - c[2], w, a)

\* C23: phase 1 rewrites the x of a flagged element, to newX with one
\* decimal, only if |newX - oldX| > 0.1; when the shift is 0.1 or less the
\* element leaves phase 1 exactly as it was.
C23_RepositionThreshold ==
    calls >= 1 =>
        \A i \in DOMAIN svg_content :
            \A e \in {svg_content[i]} :
                (Flagged(e, svg_type) /\ RepositionOf(e, svg_type).ok) =>
                    \A new_x \in {NewX(e, svg_type)} :
                        RepositionOf(e, svg_type).v =
                            IF Abs(new_x - e.x.v) > Unit \div 10
                            THEN [e EXCEPT !.x.v = Format1f(new_x)]
                            ELSE e

\* x="9.9" on the cover is flagged (leftEdge 9.9 < 10) but the shift is
\* exactly 0.1: x stays "9.9", and phase 2 shrinks the font instead.
C23_Witness ==
    /\ calls >= 1
    /\ svg_type = "cover"
    /\ Len(svg_content) = 1
    /\ svg_content[1].x = NumX(Hundredths(990))
    /\ extract_text_anchor(svg_content[1]) = "start"
    /\ Flagged(svg_content[1], svg_type)
    /\ NewX(svg_content[1], svg_type) - Hundredths(990) = Unit \div 10
    /\ corrected[1].x = svg_content[1].x
    /\ corrected[1] # svg_content[1]

\* C24: a flagged element whose left edge is below the margin is moved, if
\* it is moved, so that its left edge is on the margin, also when its right
\* edge is beyond canvasWidth - margin; the right edge is put on canvasWidth
\* - margin only for an element whose left edge is not below the margin.
C24_LeftOverflowFirst ==
    calls >= 1 =>
        \A i \in DOMAIN svg_content :
            \A e \in {svg_content[i]} :
                (Flagged(e, svg_type) /\ RepositionOf(e, svg_type).ok) =>
                    \A moved \in {RepositionOf(e, svg_type).v} :
                    \A c \in {canvas_size(svg_type)} :
                    \A w \in {get_text_width(e).v} :
                    \A a \in {extract_text_anchor(e)} :
                        moved # e =>
                            moved.x.v =
                                IF BoundsOf(e)[1] < c[2]
                                THEN Format1f(XForLeftEdge(c[2], w, a))
                                ELSE Format1f(XForRightEdge(c[1] - c[2],
                                                            w, a))

\* 40 characters at 16 centred on x=5 overflow the cover on both sides: the
\* element comes back centred on 234, its left edge on the margin.
C24_Witness ==
    /\ calls >= 1
    /\ svg_type = "cover"
    /\ Len(svg_content) = 1
    /\ svg_content[1].x = NumX(U(5))
    /\ extract_text_anchor(svg_content[1]) = "middle"
    /\ get_text_width(svg_content[1]) = Ok(U(448))
    /\ BoundsOf(svg_content[1])[1] < U(10)
    /\ BoundsOf(svg_content[1])[2] > U(226)
    /\ corrected[1].x = NumX(U(234))

\* C27: the fix of a flagged element never leaves it with a larger font
\* size than it had, and a one-element document comes back so.
C27_FontNeverIncreases ==
    calls >= 1 =>
        \A i \in DOMAIN svg_content :
            \A e \in {svg_content[i]} :
                (Flagged(e, svg_type) /\ FixOf(e, svg_type).ok) =>
                    /\ FontOf(FixOf(e, svg_type).v) <= FontOf(e)
                    /\ Len(svg_content) = 1
                           => FontOf(corrected[1]) <= FontOf(e)

(* ------------------------------------ claims: the content lookup, continued *)

\* The Book the two outcomes determine, Google Books having priority.
MergedOutcome(primary, secondary) ==
    IF primary.k = "book"
    THEN IF secondary.k = "book"
         THEN Some(merge(primary.book, secondary.book))
         ELSE Some(primary.book)
    ELSE IF secondary.k = "book" THEN Some(secondary.book)
    ELSE None

\* C25: what lookup returns is determined by the outcomes of the two
\* providers and their priority alone: it is the same whichever of the two
\* was called, and answered, first.
C25_MergeTimingIndependence ==
    lookup_pc = "done" => lookup_result = MergedOutcome(Primary, Secondary)

\* Goodreads was called first and Google Books second, both gave a Book:
\* the result is the Google Books one with the page count of Goodreads.
C25_Witness ==
    /\ lookup_pc = "done"
    /\ lookup_log = <<"GoodreadsScraperService", "GoogleBooksService">>
    /\ Primary.k = "book" /\ Secondary.k = "book"
    /\ Primary.book.title # Secondary.book.title
    /\ Primary.book.pages = None
    /\ Secondary.book.pages = Some(42)
    /\ lookup_result # None
    /\ lookup_result[1].title = Primary.book.title
    /\ lookup_result[1].pages = Some(42)

\* C26: with both providers successful, a primary page count of None or 0
\* gives way to a secondary page count that is neither, and a primary
\* description of None or '' to a secondary description that is neither; a
\* secondary page count of 0 or description '' is never copied.
C26_FillInByTruthiness ==
    (lookup_pc = "done" /\ Primary.k = "book" /\ Secondary.k = "book") =>
        \A g \in {Primary.book} :
        \A r \in {Secondary.book} :
        \A m \in {lookup_result[1]} :
            /\ (g.pages \in {None, Some(0)} /\ r.pages \notin {None, Some(0)})
                   => m.pages = r.pages
            /\ (g.description \in {None, Some("")}
                /\ r.description \notin {None, Some("")})
                   => m.description = r.description
            /\ r.pages \in {None, Some(0)} => m.pages = g.pages
            /\ r.description \in {None, Some("")}
                   => m.description = g.description

\* primary = Book(pages=0, description=''), secondary = Book(pages=42,
\* description='d2'): the result has 42 pages and description 'd2'.
C26_Witness ==
    /\ lookup_pc = "done"
    /\ Primary.k = "book" /\ Secondary.k = "book"
    /\ Primary.book.pages = Some(0)
    /\ Primary.book.description = Some("")
    /\ Secondary.book.pages = Some(42)
    /\ Secondary.book.description = Some("d2")
    /\ lookup_result[1].pages = Some(42)
    /\ lookup_result[1].description = Some("d2")

(* ------------------------------------------ claims: the parallel generations *)

\* The files a run has written, in order, as <<name, content>>.
WritesOf(r) ==
    LET w == SelectSeq(runs[r].trace, LAMBDA ev : ev[1] = "write")
    IN  [j \in 1..Len(w) |-> <<w[j][2], w[j][3]>>]

\* C12: an exception raised in one run does not cancel or abort its sibling
\* runs: once main is past the gather, every run that did not itself raise
\* has run to completion and written its cover and banner for every model.
C12_FailureIsolation ==
    main_pc \in {"returned", "exited"} =>
        \A r \in 1..parallel :
            \/ runs[r].pc = "raised"
            \/ /\ runs[r].pc = "returned"
               /\ Len(WritesOf(r)) = 2 * Len(models)

\* C13: no two distinct runs of one invocation ever write to the same file
\* name, whatever token and timestamp each of them drew.
C13_NoFilenameCollision ==
    \A r, s \in 1..parallel :
        r # s =>
            \A j \in 1..Len(WritesOf(r)), k \in 1..Len(WritesOf(s)) :
                WritesOf(r)[j][1] # WritesOf(s)[k][1]

\* The kind of file the call of this service method is followed by.
KindOf(fn) == IF fn = "generate_banner_svg" THEN "banner" ELSE "cover"

\* C14: every file a run writes holds fix_overflow of the markup the LLM
\* returned to the call just before, with the kind of that call, under the
\* file name of that kind; and every banner call is handed the content of
\* the cover file written just before it, which is the corrected cover.
C14_CorrectBeforePersist ==
    \A r \in 1..parallel :
        LET t == runs[r].trace IN
        \A p \in 1..Len(t) :
            /\ t[p][1] = "write" =>
                   /\ p >= 3
                   /\ t[p - 1][1] = "return"
                   /\ t[p - 2][1] = "call"
                   /\ t[p][2][2] = KindOf(t[p - 2][2])
                   /\ t[p][3] = fix_overflow(t[p - 1][2], t[p][2][2]).v
            /\ t[p][1] = "return" => (p < Len(t) /\ t[p + 1][1] = "write")
            /\ (t[p][1] = "call" /\ t[p][2] = "generate_banner_svg") =>
                   /\ p >= 2
                   /\ t[p - 1][1] = "write"
                   /\ t[p - 1][2][2] = "cover"
                   /\ t[p][4] = t[p - 1][3]

\* A run over two models returned: four files written, the cover files
\* differing from the LLM's markup and from the banner files.
C14_Witness ==
    /\ Len(models) = 2
    /\ \E r \in 1..parallel :
         /\ runs[r].pc = "returned"
         /\ Len(WritesOf(r)) = 4
         /\ WritesOf(r)[1][2] # <<TooWide>>
         /\ WritesOf(r)[2][2] # <<TooWide>>
         /\ WritesOf(r)[1][2] # WritesOf(r)[2][2]
         /\ WritesOf(r)[3][1] # WritesOf(r)[1][1]

(* ---------------------------------------------- claims: the version stack *)

\* C28: after any sequence of push, undo and redo the index lies between -1
\* and len(versions) - 1, and is at least 0 once anything was pushed; right
\* after push(c) the current version is c and can_redo() is false; undo and
\* redo leave the versions list as it was; undo at index 0 (or on the empty
\* stack) and redo at the last index return None and leave the stack as it
\* was.
C28_VersionStackInvariant ==
    /\ version_stack.current_index >= -1
    /\ version_stack.current_index <= Len(version_stack.versions) - 1
    /\ "push" \in done => version_stack.current_index >= 0
    /\ history # <<>> =>
          /\ Last.op = "push" =>
                /\ version_stack.versions[version_stack.current_index + 1]
                      = Last.content
                /\ ~can_redo(version_stack)
          /\ Last.op \in {"undo", "redo"} =>
                version_stack.versions = Last.before.versions
          /\ Last.op = "undo" /\ Last.before.current_index <= 0 =>
                Last.ret = None /\ version_stack = Last.before
          /\ Last.op = "redo"
                /\ Last.before.current_index
                      = Len(Last.before.versions) - 1 =>
                Last.ret = None /\ version_stack = Last.before

\* A push that came after an undo and cut a non-empty redo history away.
C28_Witness ==
    /\ Len(history) = 2
    /\ history[1].op = "undo"
    /\ history[1].ret # None
    /\ Last.op = "push"
    /\ Len(version_stack.versions) < Len(Last.before.versions)
    /\ {"push", "undo", "redo"} \subseteq done

(* ------------------------------------------ claims: undo and redo in use *)

\* C29: in the posts tool, after select, format and AI-replace operations
\* only, an undo immediately followed by a redo leaves the post file with
\* the text it had just before the undo.
C29_UndoRedoRoundTrip ==
    /\ tool = "posts"
    /\ done \subseteq SelectFormatReplace
    /\ Len(history) = 2
    /\ history[1].op = "u"
    /\ Last.op = "r"
    => path_text = history[1].text_before

\* C30: in both tools, an undo_changes or redo_changes that moved the
\* stack's index left the file holding the new current version, and one
\* that printed 'Nothing to undo.' or 'Nothing to redo.' left the index
\* where it was, whatever the stored versions are.
C30_FileAndStackInStep ==
    tool \in {"posts", "blips"} /\ history # <<>> /\ Last.op \in {"u", "r"}
    => /\ version_stack.current_index # Last.before.current_index
          => path_text
                = version_stack.versions[version_stack.current_index + 1]
       /\ Last.printed \in {"Nothing to undo.", "Nothing to redo."}
          => version_stack.current_index = Last.before.current_index

====
